---- MODULE Spec2Model ----
(***************************************************************************)
(* FastServe (src/main.go): an HTTP server that serves a directory tree    *)
(* from an in-memory cache, rescans the directory periodically and rate    *)
(* limits callers by remote address.                                       *)
(*                                                                         *)
(* The model has one process for main and its refresh goroutine (they run  *)
(* loadFiles one after the other, never together), one process per request *)
(* handler goroutine, and an environment that edits the served directory   *)
(* and advances the clock.  Each action is one step of the code between    *)
(* two points where another goroutine or the file system can interleave.   *)
(***************************************************************************)
EXTENDS Integers, Sequences, FiniteSets, TLC

\* ------------------------------------------------------------------ bounds
\* Disk edits the environment makes in one behaviour.
MaxEdits == 2
\* Calls of loadFiles in one behaviour (the initial load and the refreshes).
MaxScans == 2
\* Requests accepted in one behaviour.
MaxRequests == 2
\* The clock runs from 0 to MaxTime; one unit of time is 30 seconds.
MaxTime == 3

\* ------------------------------------------------------------- the domain
\* File names directly under the served directory, in the lexical order in
\* which filepath.Walk visits them.
NameOrder == <<"a.txt", "b.txt">>
Names == {NameOrder[i] : i \in 1..Len(NameOrder)}
Contents == {"hello", "world"}
ModTimes == {1, 2}
IPs == {"ip1", "ip2"}
Handlers == {"h1", "h2"}
\* time.Minute, in units of 30 seconds.
Minute == 2
\* Values of the -refresh and -rate flags, in units of 30 seconds.
RefreshChoices == {0, 1}
RateChoices == {1, 4}

\* What the file system holds under one name.
NoFile == [kind |-> "none", content |-> "", modTime |-> 0]
Dir == [kind |-> "dir", content |-> "", modTime |-> 0]
File(c, t) == [kind |-> "file", content |-> c, modTime |-> t]
DiskEntries == {NoFile, Dir} \cup {File(c, t) : c \in Contents, t \in ModTimes}

\* A nil *fileCache: what a map read yields for a key that is absent.
Nil == [content |-> "", modTime |-> 0]
NoOne == "none"
NoName == "none"

VARIABLES
    disk,       \* the served directory: name -> what the file system holds
    edits,      \* number of disk edits made so far
    now,        \* the clock (time.Now())
    refresh,    \* the -refresh flag
    minRequestInterval, \* server.minRequestInterval (the -rate flag)
    cache,      \* server.cache: a map, its domain is the key set
    visitors,   \* server.visitors: a map, its domain is the key set
    muWriter,   \* server.mu: the goroutine holding the write lock, or NoOne
    muReaders,  \* server.mu: the goroutines holding the read lock
    mainPc,     \* main: "init", "loading", "fatal", "serving"
    loopPc,     \* the refresh goroutine: "off", "loop", "sleep", "scan"
    wakeAt,     \* when the refresh goroutine's time.Sleep may return
    loads,      \* number of calls of loadFiles so far
    failures,   \* history: number of refreshes whose loadFiles returned an error
    scanPc,     \* loadFiles: its position ("idle": not running; "ret":
                \* returned, its caller has not yet looked at the result)
    names,      \* loadFiles: the names the walk has still to visit
    seen,       \* loadFiles: the local map `seen`
    info,       \* loadFiles: info.ModTime() of the file being visited
    content,    \* loadFiles: the bytes os.ReadFile returned
    err,        \* loadFiles: whether it returns an error
    hpc,        \* per handler: its position
    hip,        \* per handler: r.RemoteAddr
    hpath,      \* per handler: r.URL.Path[1:]
    hgot,       \* per handler: (cached, exists) of its lookup
    hscan,      \* per handler: the loadFiles its lookup ran during (0: none)
    hlive,      \* per handler: the *fileCache it holds is the one the map holds
    reqs,       \* number of requests accepted so far
    pre,        \* history: the cache when the current loadFiles began
    dirty,      \* history: the disk was edited since the last loadFiles began
    stable,     \* history: the loadFiles before the last one returned nil and
                \* the disk was not edited since that one began
    versions,   \* history: name -> the (content, modTime) pairs ever on disk
    readFailed, \* history: the name whose os.ReadFile failed in this scan
    lastGrant,  \* history: ip -> time of the last admitted request, or -1
    prevGrant,  \* history: ip -> time of the admitted request before it, or -1
    lastReject  \* history: ip -> time of the last rejected request, or -1

diskVars == <<disk, edits, versions>>
confVars == <<refresh, minRequestInterval>>
lockVars == <<muWriter, muReaders>>
scanVars == <<scanPc, names, seen, info, content, err, pre, readFailed>>
loopVars == <<mainPc, loopPc, wakeAt, loads, failures>>
handlerVars == <<hpc, hip, hpath, hgot, hscan, hlive, reqs>>
rateVars == <<visitors, lastGrant, prevGrant, lastReject>>
vars == <<disk, edits, now, refresh, minRequestInterval, cache, visitors,
          muWriter, muReaders, mainPc, loopPc, wakeAt, loads, failures, scanPc,
          names,
          seen, info, content, err, hpc, hip, hpath, hgot, hscan, hlive, reqs,
          pre, dirty, stable, versions, readFailed, lastGrant, prevGrant,
          lastReject>>

\* ---------------------------------------------------------------- helpers
\* m[k] = v on a Go map.
Put(m, k, v) == [x \in DOMAIN m \cup {k} |-> IF x = k THEN v ELSE m[x]]
\* The map m without the keys outside keep.
Restrict(m, keep) == [x \in DOMAIN m \cap keep |-> m[x]]
EmptyMap == [x \in {} |-> Nil]

\* cached, exists := s.cache[relPath]
Lookup(m, k) ==
    IF k \in DOMAIN m THEN [exists |-> TRUE, cached |-> m[k]]
    ELSE [exists |-> FALSE, cached |-> Nil]

\* The names a directory listing returns, sorted.
Listing(d) == SelectSeq(NameOrder, LAMBDA n : d[n].kind # "none")
FilesOn(d) == {n \in Names : d[n].kind = "file"}
EntryOf(f) == [content |-> f.content, modTime |-> f.modTime]

\* -------------------------------------------------------------- loadFiles
\* &fileCache{content: content, modTime: info.ModTime()}
fileCache(c, t) == [content |-> c, modTime |-> t]

\* A test that forgets the modification time: any cached file is unchanged.
UnchangedIfCached(got, t) == got.exists

\* A test that never finds a file unchanged.
UnchangedNever(got, t) == FALSE

\* exists && info.ModTime().Equal(cached.modTime)
Unchanged(got, t) == got.exists /\ t = got.cached.modTime

\* A removal pass that removes nothing.
RemoveNone(m, s) == m

\* A removal pass with the test the wrong way round: it removes the seen.
RemoveSeen(m, s) == Restrict(m, DOMAIN m \ s)

\* for path := range s.cache { if !seen[path] { delete(s.cache, path) } }
RemoveUnseen(m, s) == Restrict(m, s)

\* The walk moves on to the next name, or ends without error.
WalkOn ==
    /\ names' = Tail(names)
    /\ scanPc' = IF Tail(names) = <<>> THEN "purge" ELSE "visit"

\* loadFiles returns the error the walk returned, before the removal pass.
WalkFails ==
    /\ scanPc' = "ret"
    /\ err' = TRUE

\* loadFiles is entered: seen := make(map[string]bool).
loadFiles ==
    /\ scanPc' = "walk"
    /\ seen' = {}
    /\ names' = <<>>
    /\ info' = 0
    /\ content' = ""
    /\ err' = FALSE
    /\ pre' = cache
    /\ dirty' = FALSE
    /\ stable' = (loads >= 1 /\ ~err /\ ~dirty)
    /\ readFailed' = NoName
    /\ loads' = loads + 1

\* filepath.Walk lstats the root and lists it; the callback returns nil for
\* the root, which is a directory.
WalkRoot ==
    /\ scanPc = "walk"
    /\ names' = Listing(disk)
    /\ scanPc' = IF Listing(disk) = <<>> THEN "purge" ELSE "visit"
    /\ UNCHANGED <<seen, info, content, err, pre, readFailed>>
    /\ UNCHANGED <<diskVars, now, confVars, cache, lockVars, loopVars,
                   handlerVars, rateVars, dirty, stable>>

\* Lstat of the root or the listing of the root fails: the callback gets the
\* error and returns it.
WalkRootErr ==
    /\ scanPc = "walk"
    /\ WalkFails
    /\ UNCHANGED <<names, seen, info, content, pre, readFailed>>
    /\ UNCHANGED <<diskVars, now, confVars, cache, lockVars, loopVars,
                   handlerVars, rateVars, dirty, stable>>

\* The walk lstats the next name and finds a regular file: the callback
\* marks it seen and keeps its modification time.
VisitFile ==
    /\ scanPc = "visit"
    /\ disk[Head(names)].kind = "file"
    /\ seen' = seen \cup {Head(names)}
    /\ info' = disk[Head(names)].modTime
    /\ scanPc' = "check"
    /\ UNCHANGED <<names, content, err, pre, readFailed>>
    /\ UNCHANGED <<diskVars, now, confVars, cache, lockVars, loopVars,
                   handlerVars, rateVars, dirty, stable>>

\* The walk lstats the next name and finds a directory: the callback returns
\* nil, the directory is listed (it holds nothing) and the walk moves on.
VisitDir ==
    /\ scanPc = "visit"
    /\ disk[Head(names)].kind = "dir"
    /\ WalkOn
    /\ UNCHANGED <<seen, info, content, err, pre, readFailed>>
    /\ UNCHANGED <<diskVars, now, confVars, cache, lockVars, loopVars,
                   handlerVars, rateVars, dirty, stable>>

\* Lstat of the next name fails (always when the name is gone since the
\* listing), or listing it as a directory fails: the callback gets the error
\* and returns it.
VisitErr ==
    /\ scanPc = "visit"
    /\ WalkFails
    /\ UNCHANGED <<names, seen, info, content, pre, readFailed>>
    /\ UNCHANGED <<diskVars, now, confVars, cache, lockVars, loopVars,
                   handlerVars, rateVars, dirty, stable>>

\* A callback that takes the write lock before it reads the file and keeps it
\* until the entry is stored.
CheckCachedHoldingLock ==
    /\ scanPc = "check"
    /\ muWriter = NoOne /\ muReaders = {}
    /\ IF Unchanged(Lookup(cache, Head(names)), info)
       THEN WalkOn /\ muWriter' = muWriter
       ELSE scanPc' = "read" /\ names' = names /\ muWriter' = "scan"
    /\ UNCHANGED muReaders
    /\ UNCHANGED <<seen, info, content, err, pre, readFailed>>
    /\ UNCHANGED <<diskVars, now, confVars, cache, loopVars, handlerVars,
                   rateVars, dirty, stable>>

\* A callback that marks a file seen only when it goes on to read it.
CheckCachedUnmarking ==
    /\ scanPc = "check"
    /\ muWriter = NoOne
    /\ IF Unchanged(Lookup(cache, Head(names)), info)
       THEN WalkOn /\ seen' = seen \ {Head(names)}
       ELSE scanPc' = "read" /\ names' = names /\ seen' = seen
    /\ UNCHANGED <<info, content, err, pre, readFailed>>
    /\ UNCHANGED <<diskVars, now, confVars, cache, lockVars, loopVars,
                   handlerVars, rateVars, dirty, stable>>

\* s.mu.RLock(); cached, exists := s.cache[relPath]; s.mu.RUnlock(), and the
\* test that follows: an unchanged file ends the callback.
CheckCached ==
    /\ scanPc = "check"
    /\ muWriter = NoOne
    /\ IF Unchanged(Lookup(cache, Head(names)), info)
       THEN WalkOn
       ELSE scanPc' = "read" /\ names' = names
    /\ UNCHANGED <<seen, info, content, err, pre, readFailed>>
    /\ UNCHANGED <<diskVars, now, confVars, cache, lockVars, loopVars,
                   handlerVars, rateVars, dirty, stable>>

\* content, err := os.ReadFile(path) succeeds.
ReadFile ==
    /\ scanPc = "read"
    /\ disk[Head(names)].kind = "file"
    /\ content' = disk[Head(names)].content
    /\ scanPc' = "lock"
    /\ UNCHANGED <<names, seen, info, err, pre, readFailed>>
    /\ UNCHANGED <<diskVars, now, confVars, cache, lockVars, loopVars,
                   handlerVars, rateVars, dirty, stable>>

\* os.ReadFile fails (always when the file is gone or is a directory by
\* now): the callback returns the error.
ReadFileErr ==
    /\ scanPc = "read"
    /\ WalkFails
    /\ readFailed' = Head(names)
    /\ UNCHANGED <<names, seen, info, content, pre>>
    /\ UNCHANGED <<diskVars, now, confVars, cache, lockVars, loopVars,
                   handlerVars, rateVars, dirty, stable>>

\* s.mu.Lock() before the entry is stored.
StoreLock ==
    /\ scanPc = "lock"
    /\ muWriter = NoOne /\ muReaders = {}
    /\ muWriter' = "scan"
    /\ scanPc' = "store"
    /\ UNCHANGED muReaders
    /\ UNCHANGED <<names, seen, info, content, err, pre, readFailed>>
    /\ UNCHANGED <<diskVars, now, confVars, cache, loopVars, handlerVars,
                   rateVars, dirty, stable>>

\* A store that overwrites the entry the key has, in place, when it has one:
\* a handler that holds that entry holds what the map holds, changed.
StoreInPlace ==
    /\ scanPc = "store"
    /\ cache' = Put(cache, Head(names), fileCache(content, info))
    /\ hlive' = hlive
    /\ muWriter' = NoOne
    /\ WalkOn
    /\ UNCHANGED muReaders
    /\ UNCHANGED <<seen, info, content, err, pre, readFailed>>
    /\ UNCHANGED <<hpc, hip, hpath, hgot, hscan, reqs>>
    /\ UNCHANGED <<diskVars, now, confVars, loopVars, rateVars, dirty, stable>>

\* s.cache[relPath] = &fileCache{...}; s.mu.Unlock(); return nil.  The entry
\* is a new object: a handler that holds the one the key had holds it still,
\* and the map no longer does.
Store ==
    /\ scanPc = "store"
    /\ cache' = Put(cache, Head(names), fileCache(content, info))
    /\ hlive' = [h \in Handlers |-> hlive[h] /\ hpath[h] # Head(names)]
    /\ muWriter' = NoOne
    /\ WalkOn
    /\ UNCHANGED muReaders
    /\ UNCHANGED <<seen, info, content, err, pre, readFailed>>
    /\ UNCHANGED <<hpc, hip, hpath, hgot, hscan, reqs>>
    /\ UNCHANGED <<diskVars, now, confVars, loopVars, rateVars, dirty, stable>>

\* s.mu.Lock() before the removal pass.
PurgeLock ==
    /\ scanPc = "purge"
    /\ muWriter = NoOne /\ muReaders = {}
    /\ muWriter' = "scan"
    /\ scanPc' = "purging"
    /\ UNCHANGED muReaders
    /\ UNCHANGED <<names, seen, info, content, err, pre, readFailed>>
    /\ UNCHANGED <<diskVars, now, confVars, cache, loopVars, handlerVars,
                   rateVars, dirty, stable>>

\* A removal pass that takes the lock anew for every key it removes.
PurgeOne ==
    /\ scanPc = "purging"
    /\ IF DOMAIN cache \subseteq seen
       THEN cache' = cache /\ scanPc' = "ret"
       ELSE /\ \E k \in DOMAIN cache \ seen :
                   cache' = Restrict(cache, DOMAIN cache \ {k})
            /\ scanPc' = "purge"
    /\ hlive' = [h \in Handlers |-> hlive[h] /\ hpath[h] \in DOMAIN cache']
    /\ muWriter' = NoOne
    /\ UNCHANGED muReaders
    /\ UNCHANGED <<names, seen, info, content, err, pre, readFailed>>
    /\ UNCHANGED <<hpc, hip, hpath, hgot, hscan, reqs>>
    /\ UNCHANGED <<diskVars, now, confVars, loopVars, rateVars, dirty, stable>>

\* The removal pass; s.mu.Unlock(); return nil.  delete drops the map's
\* pointer, not the entry a handler may hold.
Purge ==
    /\ scanPc = "purging"
    /\ cache' = RemoveUnseen(cache, seen)
    /\ hlive' = [h \in Handlers |-> hlive[h] /\ hpath[h] \in DOMAIN cache']
    /\ muWriter' = NoOne
    /\ scanPc' = "ret"
    /\ UNCHANGED muReaders
    /\ UNCHANGED <<names, seen, info, content, err, pre, readFailed>>
    /\ UNCHANGED <<hpc, hip, hpath, hgot, hscan, reqs>>
    /\ UNCHANGED <<diskVars, now, confVars, loopVars, rateVars, dirty, stable>>

\* ------------------------------------------------- main and the refresh loop
\* main calls srv.loadFiles() for the initial load.
InitialLoad ==
    /\ mainPc = "init"
    /\ scanPc = "idle"
    /\ loadFiles
    /\ mainPc' = "loading"
    /\ UNCHANGED <<loopPc, wakeAt, failures>>
    /\ UNCHANGED <<diskVars, now, confVars, cache, lockVars, handlerVars,
                   rateVars>>

\* The initial load returned an error: log.Fatalf ends the process.
InitialLoadFatal ==
    /\ mainPc = "loading"
    /\ scanPc = "ret" /\ err
    /\ mainPc' = "fatal"
    /\ UNCHANGED <<loopPc, wakeAt, loads, failures>>
    /\ UNCHANGED <<scanVars, diskVars, now, confVars, cache, lockVars,
                   handlerVars, rateVars, dirty, stable>>

\* A main that goes on to serve whatever the initial load returned.
StartServingAnyway ==
    /\ mainPc = "loading"
    /\ scanPc = "ret"
    /\ mainPc' = "serving"
    /\ loopPc' = "loop"
    /\ scanPc' = "idle"
    /\ UNCHANGED <<wakeAt, loads, failures>>
    /\ UNCHANGED <<names, seen, info, content, err, pre, readFailed>>
    /\ UNCHANGED <<diskVars, now, confVars, cache, lockVars, handlerVars,
                   rateVars, dirty, stable>>

\* The initial load returned nil: main starts the refresh goroutine,
\* registers the handler and listens.
StartServing ==
    /\ mainPc = "loading"
    /\ scanPc = "ret" /\ ~err
    /\ mainPc' = "serving"
    /\ loopPc' = "loop"
    /\ scanPc' = "idle"
    /\ UNCHANGED <<wakeAt, loads, failures>>
    /\ UNCHANGED <<names, seen, info, content, err, pre, readFailed>>
    /\ UNCHANGED <<diskVars, now, confVars, cache, lockVars, handlerVars,
                   rateVars, dirty, stable>>

\* The refresh goroutine calls time.Sleep(*refresh).
Sleep ==
    /\ loopPc = "loop"
    /\ wakeAt' = now + refresh
    /\ loopPc' = "sleep"
    /\ UNCHANGED <<mainPc, loads, failures>>
    /\ UNCHANGED <<scanVars, diskVars, now, confVars, cache, lockVars,
                   handlerVars, rateVars, dirty, stable>>

\* time.Sleep returns, no earlier than asked, and the goroutine calls
\* srv.loadFiles(), in a behaviour of at most `cap` calls of loadFiles.
RefreshUpTo(cap) ==
    /\ loopPc = "sleep"
    /\ now >= wakeAt
    /\ loads < cap
    /\ loadFiles
    /\ loopPc' = "scan"
    /\ UNCHANGED <<mainPc, wakeAt, failures>>
    /\ UNCHANGED <<diskVars, now, confVars, cache, lockVars, handlerVars,
                   rateVars>>

Refresh == RefreshUpTo(MaxScans)

\* A refresh goroutine that returns when loadFiles returns an error.
RefreshDoneOrExit ==
    /\ loopPc = "scan"
    /\ scanPc = "ret"
    /\ loopPc' = IF err THEN "off" ELSE "loop"
    /\ scanPc' = "idle"
    /\ failures' = IF err THEN failures + 1 ELSE failures
    /\ UNCHANGED <<mainPc, wakeAt, loads>>
    /\ UNCHANGED <<names, seen, info, content, err, pre, readFailed>>
    /\ UNCHANGED <<diskVars, now, confVars, cache, lockVars, handlerVars,
                   rateVars, dirty, stable>>

\* The refresh's loadFiles returned: an error is logged, and the loop goes
\* round.
RefreshDone ==
    /\ loopPc = "scan"
    /\ scanPc = "ret"
    /\ loopPc' = "loop"
    /\ scanPc' = "idle"
    /\ failures' = IF err THEN failures + 1 ELSE failures
    /\ UNCHANGED <<mainPc, wakeAt, loads>>
    /\ UNCHANGED <<names, seen, info, content, err, pre, readFailed>>
    /\ UNCHANGED <<diskVars, now, confVars, cache, lockVars, handlerVars,
                   rateVars, dirty, stable>>

\* -------------------------------------------------------------- rateLimit
\* The visitors left by the clean-up loop: delete(s.visitors, ip) for every
\* entry with now.Sub(lastVisit) > time.Minute.
CleanUp(v, t) == Restrict(v, {ip \in DOMAIN v : ~(t - v[ip] > Minute)})

\* exists && now.Sub(lastVisit) < s.minRequestInterval
TooSoon(v, ip, t, min) == ip \in DOMAIN v /\ t - v[ip] < min

\* ---------------------------------------------------------- handleRequest
\* The server accepts a request and starts handleRequest for it, in a
\* behaviour of at most `cap` requests.
AcceptUpTo(h, ip, path, cap) ==
    /\ mainPc = "serving"
    /\ hpc[h] = "idle"
    /\ reqs < cap
    /\ reqs' = reqs + 1
    /\ hpc' = [hpc EXCEPT ![h] = "rate"]
    /\ hip' = [hip EXCEPT ![h] = ip]
    /\ hpath' = [hpath EXCEPT ![h] = path]
    /\ UNCHANGED <<hgot, hscan, hlive>>
    /\ UNCHANGED <<scanVars, diskVars, now, confVars, cache, lockVars,
                   loopVars, rateVars, dirty, stable>>

Accept(h, ip, path) == AcceptUpTo(h, ip, path, MaxRequests)

\* rateLimit: s.mu.Lock().
RateLimitLock(h) ==
    /\ hpc[h] = "rate"
    /\ muWriter = NoOne /\ muReaders = {}
    /\ muWriter' = h
    /\ hpc' = [hpc EXCEPT ![h] = "limit"]
    /\ UNCHANGED <<muReaders, hip, hpath, hgot, hscan, hlive, reqs>>
    /\ UNCHANGED <<scanVars, diskVars, now, confVars, cache, loopVars,
                   rateVars, dirty, stable>>

\* rateLimit from time.Now() to return true; the deferred s.mu.Unlock().
RateLimitAdmit(h) ==
    /\ hpc[h] = "limit"
    /\ ~TooSoon(CleanUp(visitors, now), hip[h], now, minRequestInterval)
    /\ visitors' = Put(CleanUp(visitors, now), hip[h], now)
    /\ prevGrant' = [prevGrant EXCEPT ![hip[h]] = lastGrant[hip[h]]]
    /\ lastGrant' = [lastGrant EXCEPT ![hip[h]] = now]
    /\ muWriter' = NoOne
    /\ hpc' = [hpc EXCEPT ![h] = "lookup"]
    /\ UNCHANGED lastReject
    /\ UNCHANGED <<muReaders, hip, hpath, hgot, hscan, hlive, reqs>>
    /\ UNCHANGED <<scanVars, diskVars, now, confVars, cache, loopVars, dirty, stable>>

\* A rejection after which handleRequest goes on to the lookup.
RateLimitRejectThenLookup(h) ==
    /\ hpc[h] = "limit"
    /\ TooSoon(CleanUp(visitors, now), hip[h], now, minRequestInterval)
    /\ visitors' = CleanUp(visitors, now)
    /\ lastReject' = [lastReject EXCEPT ![hip[h]] = now]
    /\ muWriter' = NoOne
    /\ hpc' = [hpc EXCEPT ![h] = "lookup"]
    /\ UNCHANGED <<lastGrant, prevGrant>>
    /\ UNCHANGED <<muReaders, hip, hpath, hgot, hscan, hlive, reqs>>
    /\ UNCHANGED <<scanVars, diskVars, now, confVars, cache, loopVars, dirty,
                   stable>>

\* A rejection that stamps the caller with the time of the rejected request.
RateLimitRejectAndStamp(h) ==
    /\ hpc[h] = "limit"
    /\ TooSoon(CleanUp(visitors, now), hip[h], now, minRequestInterval)
    /\ visitors' = Put(CleanUp(visitors, now), hip[h], now)
    /\ lastReject' = [lastReject EXCEPT ![hip[h]] = now]
    /\ muWriter' = NoOne
    /\ hpc' = [hpc EXCEPT ![h] = "idle"]
    /\ UNCHANGED <<lastGrant, prevGrant>>
    /\ UNCHANGED <<muReaders, hip, hpath, hgot, hscan, hlive, reqs>>
    /\ UNCHANGED <<scanVars, diskVars, now, confVars, cache, loopVars, dirty,
                   stable>>

\* rateLimit from time.Now() to return false; the deferred s.mu.Unlock();
\* handleRequest answers 429 and returns.
RateLimitReject(h) ==
    /\ hpc[h] = "limit"
    /\ TooSoon(CleanUp(visitors, now), hip[h], now, minRequestInterval)
    /\ visitors' = CleanUp(visitors, now)
    /\ lastReject' = [lastReject EXCEPT ![hip[h]] = now]
    /\ muWriter' = NoOne
    /\ hpc' = [hpc EXCEPT ![h] = "idle"]
    /\ UNCHANGED <<lastGrant, prevGrant>>
    /\ UNCHANGED <<muReaders, hip, hpath, hgot, hscan, hlive, reqs>>
    /\ UNCHANGED <<scanVars, diskVars, now, confVars, cache, loopVars, dirty, stable>>

\* handleRequest: s.mu.RLock().
LookupRLock(h) ==
    /\ hpc[h] = "lookup"
    /\ muWriter = NoOne
    /\ muReaders' = muReaders \cup {h}
    /\ hpc' = [hpc EXCEPT ![h] = "rlocked"]
    /\ UNCHANGED <<muWriter, hip, hpath, hgot, hscan, hlive, reqs>>
    /\ UNCHANGED <<scanVars, diskVars, now, confVars, cache, loopVars,
                   rateVars, dirty, stable>>

\* cached, exists := s.cache[path]; s.mu.RUnlock().
LookupRead(h) ==
    /\ hpc[h] = "rlocked"
    /\ hgot' = [hgot EXCEPT ![h] = Lookup(cache, hpath[h])]
    /\ hscan' = [hscan EXCEPT ![h] = IF scanPc \in {"idle", "ret"} THEN 0 ELSE loads]
    /\ hlive' = [hlive EXCEPT ![h] = hpath[h] \in DOMAIN cache]
    /\ muReaders' = muReaders \ {h}
    /\ hpc' = [hpc EXCEPT ![h] = "serve"]
    /\ UNCHANGED <<muWriter, hip, hpath, reqs>>
    /\ UNCHANGED <<scanVars, diskVars, now, confVars, cache, loopVars,
                   rateVars, dirty, stable>>

\* http.NotFound, or http.ServeContent with the entry's modTime and content.
Serve(h) ==
    /\ hpc[h] = "serve"
    /\ hpc' = [hpc EXCEPT ![h] = "idle"]
    /\ hgot' = [hgot EXCEPT ![h] = Lookup(EmptyMap, hpath[h])]
    /\ hscan' = [hscan EXCEPT ![h] = 0]
    /\ hlive' = [hlive EXCEPT ![h] = FALSE]
    /\ UNCHANGED <<hip, hpath, reqs>>
    /\ UNCHANGED <<scanVars, diskVars, now, confVars, cache, lockVars,
                   loopVars, rateVars, dirty, stable>>

\* -------------------------------------------------------- the environment
\* An edit of the served directory; the scan that runs, or the last one that
\* ran, is dirty from now on.
Edited(d) ==
    /\ edits < MaxEdits
    /\ edits' = edits + 1
    /\ disk' = d
    /\ versions' = [n \in Names |->
                      IF d[n].kind = "file" THEN versions[n] \cup {EntryOf(d[n])}
                      ELSE versions[n]]
    /\ dirty' = TRUE
    /\ UNCHANGED <<scanVars, now, confVars, cache, lockVars, loopVars,
                   handlerVars, rateVars, stable>>

\* A file is created or rewritten; its modification time is whatever the
\* writer leaves there (the time of the write, or one set with utimes).
WriteFile(n, c, t) ==
    /\ disk[n].kind \in {"none", "file"}
    /\ File(c, t) # disk[n]
    /\ Edited([disk EXCEPT ![n] = File(c, t)])

\* A file or an empty directory is removed.
Remove(n) ==
    /\ disk[n].kind # "none"
    /\ Edited([disk EXCEPT ![n] = NoFile])

\* A directory is created.
Mkdir(n) ==
    /\ disk[n].kind = "none"
    /\ Edited([disk EXCEPT ![n] = Dir])

\* Time passes.
Tick ==
    /\ now < MaxTime
    /\ now' = now + 1
    /\ UNCHANGED <<scanVars, diskVars, confVars, cache, lockVars, loopVars,
                   handlerVars, rateVars, dirty, stable>>

\* ------------------------------------------------------ the specification
\* newServer, after flag.Parse and the check that *rate is positive: the
\* directory holds one of `disks`, and the flags one of `refreshes` and
\* `rates`.
newServer(disks, refreshes, rates) ==
    /\ disk \in disks
    /\ edits = 0
    /\ versions = [n \in Names |->
                     IF disk[n].kind = "file" THEN {EntryOf(disk[n])} ELSE {}]
    /\ now = 0
    /\ refresh \in refreshes
    /\ minRequestInterval \in rates
    /\ cache = EmptyMap
    /\ visitors = [x \in {} |-> 0]
    /\ muWriter = NoOne
    /\ muReaders = {}
    /\ mainPc = "init"
    /\ loopPc = "off"
    /\ wakeAt = 0
    /\ loads = 0
    /\ failures = 0
    /\ scanPc = "idle"
    /\ names = <<>>
    /\ seen = {}
    /\ info = 0
    /\ content = ""
    /\ err = FALSE
    /\ hpc = [h \in Handlers |-> "idle"]
    /\ hip = [h \in Handlers |-> "ip1"]
    /\ hpath = [h \in Handlers |-> NameOrder[1]]
    /\ hgot = [h \in Handlers |-> Lookup(EmptyMap, NameOrder[1])]
    /\ hscan = [h \in Handlers |-> 0]
    /\ hlive = [h \in Handlers |-> FALSE]
    /\ reqs = 0
    /\ pre = EmptyMap
    /\ dirty = FALSE
    /\ stable = FALSE
    /\ readFailed = NoName
    /\ lastGrant = [ip \in IPs |-> -1]
    /\ prevGrant = [ip \in IPs |-> -1]
    /\ lastReject = [ip \in IPs |-> -1]

\* main and the refresh goroutine, in a behaviour of at most `cap` calls of
\* loadFiles.
LoopStepUpTo(cap) ==
    \/ InitialLoad
    \/ InitialLoadFatal
    \/ StartServing
    \/ Sleep
    \/ RefreshUpTo(cap)
    \/ RefreshDone

LoopStep == LoopStepUpTo(MaxScans)

\* loadFiles.
ScanStep ==
    \/ WalkRoot
    \/ WalkRootErr
    \/ VisitFile
    \/ VisitDir
    \/ VisitErr
    \/ CheckCached
    \/ ReadFile
    \/ ReadFileErr
    \/ StoreLock
    \/ Store
    \/ PurgeLock
    \/ Purge

\* handleRequest, after the request is accepted.
HandlerStep ==
    \/ \E h \in Handlers : RateLimitLock(h)
    \/ \E h \in Handlers : RateLimitAdmit(h)
    \/ \E h \in Handlers : RateLimitReject(h)
    \/ \E h \in Handlers : LookupRLock(h)
    \/ \E h \in Handlers : LookupRead(h)
    \/ \E h \in Handlers : Serve(h)

\* Edits of the served directory.
DiskStep ==
    \/ \E n \in Names, c \in Contents, t \in ModTimes : WriteFile(n, c, t)
    \/ \E n \in Names : Remove(n)
    \/ \E n \in Names : Mkdir(n)

\* Any request: any caller address, any path.
AnyRequest == \E h \in Handlers, ip \in IPs, path \in Names : Accept(h, ip, path)

\* Every connection has its own remote address, and its requests ask for
\* one path.
OwnAddr == [h \in Handlers |-> IF h = "h1" THEN "ip1" ELSE "ip2"]
OwnPath == [h \in Handlers |-> IF h = "h1" THEN NameOrder[1] ELSE NameOrder[2]]
OwnRequest == \E h \in Handlers : Accept(h, OwnAddr[h], OwnPath[h])

\* The whole program and its environment.
Init == newServer([Names -> DiskEntries], RefreshChoices, RateChoices)
Next == LoopStep \/ ScanStep \/ AnyRequest \/ HandlerStep \/ DiskStep \/ Tick
Spec == Init /\ [][Next]_vars

\* The reconcile alone: loadFiles against a directory that is being edited,
\* with no request in flight.  loadFiles never reads the clock, so time
\* stands still and the refreshes follow one another (-refresh 0).
PresentOrNot == [Names -> {NoFile, File("hello", 1)}]
InitScan == newServer([Names -> DiskEntries], {0}, {1})
NextScan == LoopStep \/ ScanStep \/ DiskStep
SpecScan == InitScan /\ [][NextScan]_vars

\* The reconcile with one refresh more than the other specifications run: a
\* loadFiles that starts from any cache, and the one after it.
MoreScans == MaxScans + 1
InitRescan == newServer(PresentOrNot, {0}, {1})
NextRescan == LoopStepUpTo(MoreScans) \/ ScanStep \/ DiskStep
SpecRescan == InitRescan /\ [][NextRescan]_vars

\* The reconcile with lookups running beside it: one request per
\* connection, each connection with its own address and path.
InitServe == newServer(PresentOrNot, {0}, {1})
NextServe == LoopStep \/ ScanStep \/ OwnRequest \/ HandlerStep \/ DiskStep
SpecServe == InitServe /\ [][NextServe]_vars

\* The rate limiter: requests from any address as time passes, against a
\* directory that is not edited (it holds one file and one directory).
FileAndDir == [n \in Names |-> IF n = NameOrder[1] THEN File("hello", 1) ELSE Dir]
InitRate == newServer({FileAndDir}, {1}, RateChoices)
NextRate == LoopStep \/ ScanStep \/ AnyRequest \/ HandlerStep \/ Tick
SpecRate == InitRate /\ [][NextRate]_vars

\* The rate limiter under one caller, with one request more than the other
\* specifications accept: an admitted request, a rejected one and the next.
OneCaller ==
    \E h \in Handlers : AcceptUpTo(h, OwnAddr["h1"], NameOrder[1], MaxRequests + 1)
NextLimit == LoopStep \/ ScanStep \/ OneCaller \/ HandlerStep \/ Tick
SpecLimit == InitRate /\ [][NextLimit]_vars

\* The refresh loop: main and the refresh goroutine as time passes, with no
\* request in flight.
InitLoop == newServer(PresentOrNot, RefreshChoices, {1})
NextLoop == LoopStep \/ ScanStep \/ DiskStep \/ Tick
SpecLoop == InitLoop /\ [][NextLoop]_vars

\* Fair scheduling: a goroutine that can take a step takes one in the end,
\* and time passes.
Fairness ==
    /\ WF_vars(LoopStepUpTo(MoreScans))
    /\ WF_vars(ScanStep)
    /\ WF_vars(Tick)

\* The refresh loop under fair scheduling, with one refresh more than the
\* other specifications run, against a directory that is not edited: a
\* loadFiles fails when the file system returns an error.
InitRefresh == newServer({FileAndDir}, RefreshChoices, {1})
NextRefresh == LoopStepUpTo(MoreScans) \/ ScanStep \/ Tick
SpecRefresh == InitRefresh /\ [][NextRefresh]_vars /\ Fairness

\* The refresh loop under fair scheduling with a positive refresh interval,
\* against a directory that is being edited.
InitSettle == newServer({FileAndDir}, {1}, {1})
NextSettle == LoopStepUpTo(MoreScans) \/ ScanStep \/ DiskStep \/ Tick
SpecSettle == InitSettle /\ [][NextSettle]_vars /\ Fairness

\* ----------------------------------------------------------------- claims
\* loadFiles has returned to its caller, which has not yet looked at the
\* result, and the directory was not edited since loadFiles was entered.
Returned == scanPc = "ret"
CleanScan == Returned /\ ~err /\ ~dirty
\* What a lookup of n returns when the cache holds n as it is on disk.
Cached(n) == [exists |-> TRUE, cached |-> EntryOf(disk[n])]

\* C1: when loadFiles fails, the cache it leaves is, key for key and entry
\* for entry, the cache it found when it began.
C1_FailedScanLeavesCache ==
    (Returned /\ err) => cache = pre

\* C2 (as claimed): after a loadFiles that succeeds on a directory no one
\* edited meanwhile, every file under the root is cached with the content and
\* the modification time it has on disk.
C2_CacheEqualsDisk ==
    CleanScan => \A n \in FilesOn(disk) : Lookup(cache, n) = Cached(n)

\* C2 (amended): after such a loadFiles every file under the root is cached
\* with the modification time it has on disk, and with the content it has on
\* disk unless the cache already held an entry with that modification time
\* when the scan began, in which case that entry is kept as it was.
C2_CacheEqualsDiskUnlessSameModTime ==
    CleanScan =>
        \A n \in FilesOn(disk) :
            /\ n \in DOMAIN cache
            /\ cache[n].modTime = disk[n].modTime
            /\ \/ cache[n].content = disk[n].content
               \/ /\ n \in DOMAIN pre
                  /\ pre[n].modTime = disk[n].modTime
                  /\ cache[n] = pre[n]

\* C2 witness: a refresh has reloaded a file that was rewritten on disk with
\* a new modification time before the scan began.
C2_Witness ==
    /\ CleanScan
    /\ \E n \in FilesOn(disk) :
        /\ n \in DOMAIN pre /\ n \in DOMAIN cache
        /\ pre[n].modTime # disk[n].modTime
        /\ pre[n].content # disk[n].content
        /\ cache[n] = EntryOf(disk[n])

\* C3: after a loadFiles that succeeds on a directory no one edited
\* meanwhile, the keys of the cache are exactly the files under the root.
C3_KeysAreTheFiles ==
    CleanScan => DOMAIN cache = FilesOn(disk)

\* C3 witness: one scan has dropped the key of a removed file and added the
\* key of a new one.
C3_Witness ==
    /\ CleanScan
    /\ DOMAIN pre \ FilesOn(disk) # {}
    /\ FilesOn(disk) \ DOMAIN pre # {}
    /\ DOMAIN cache = FilesOn(disk)

\* C4: every cached entry pairs a content and a modification time that the
\* file had on disk together, at one time.
C4_EntryIsOneVersion ==
    \A n \in DOMAIN cache : cache[n] \in versions[n]

\* A lookup that handler h made while the loadFiles that has just returned
\* was running, and whose result h still holds.
LookedUpDuringScan(h) == hpc[h] = "serve" /\ hscan[h] = loads

\* C5: two lookups made during one successful loadFiles never return, one
\* the entry this scan wrote for its key, the other the entry the previous
\* scan left for a key that this scan goes on to change.
C5_NoMixOfTwoScans ==
    (Returned /\ ~err) =>
        ~ \E g, h \in Handlers :
            /\ LookedUpDuringScan(g) /\ LookedUpDuringScan(h)
            /\ hgot[g] = Lookup(cache, hpath[g])
            /\ hgot[g] # Lookup(pre, hpath[g])
            /\ hgot[h] = Lookup(pre, hpath[h])
            /\ hgot[h] # Lookup(cache, hpath[h])

\* C6: a lookup made while loadFiles runs returns what its key had when the
\* scan began or what it has when the scan returns, and no handler reads the
\* map while loadFiles writes it.
C6_LookupIsPreOrPost ==
    /\ Returned =>
        \A h \in Handlers :
            LookedUpDuringScan(h) =>
                hgot[h] \in {Lookup(pre, hpath[h]), Lookup(cache, hpath[h])}
    /\ \A h \in Handlers :
        hpc[h] = "rlocked" => scanPc \notin {"store", "purging"}

\* C6 witness: a lookup made during a scan that changed its key returned
\* the new entry, and the scan has returned.
C6_Witness ==
    /\ Returned
    /\ \E h \in Handlers :
        /\ LookedUpDuringScan(h)
        /\ hpath[h] \in DOMAIN pre
        /\ Lookup(pre, hpath[h]) # Lookup(cache, hpath[h])
        /\ hgot[h] = Lookup(cache, hpath[h])

\* C7: when reading one file fails during a loadFiles on a directory no one
\* edits meanwhile, every other file under the root is reconciled and the
\* keys of the other names that are no longer files are removed.
C7_ReadErrorSkipsOneFile ==
    (Returned /\ readFailed # NoName /\ ~dirty) =>
        \A n \in Names \ {readFailed} :
            IF n \in FilesOn(disk)
            THEN n \in DOMAIN cache /\ cache[n].modTime = disk[n].modTime
            ELSE n \notin DOMAIN cache

\* C8: two successive admitted requests of one caller are at least the
\* minimum interval apart.
C8_GrantsAnIntervalApart ==
    \A ip \in IPs :
        prevGrant[ip] >= 0 => lastGrant[ip] - prevGrant[ip] >= minRequestInterval

\* C9: with a refresh interval of zero loadFiles is called once, for the
\* initial load, and never again.
C9_ZeroRefreshLoadsOnce ==
    refresh = 0 => loads <= 1

\* C10: a handler about to take the read lock for its lookup never finds the
\* lock held by another request's handler.
C10_LookupNeverWaitsForRequest ==
    \A h \in Handlers : hpc[h] = "lookup" => muWriter \notin Handlers

\* C12: a request is accepted or handled, and the refresh loop runs, only
\* while main serves; main serves only after an initial loadFiles that
\* returned nil; and after an initial loadFiles that failed the process is
\* gone with no request ever accepted and no refresh loop started.
C12_ServesOnlyAfterInitialLoad ==
    /\ (reqs > 0 \/ loopPc # "off" \/ \E h \in Handlers : hpc[h] # "idle")
           => mainPc = "serving"
    /\ mainPc = "serving" => loads >= 1
    /\ (mainPc = "serving" /\ loads = 1) => (~err /\ scanPc = "idle")
    /\ mainPc = "fatal" =>
           /\ loads = 1 /\ err
           /\ reqs = 0 /\ loopPc = "off"
           /\ \A h \in Handlers : hpc[h] = "idle"

\* C12 witness: a handler holds the entry of a file that the initial load,
\* the only loadFiles so far, put in the cache.
C12_Witness ==
    /\ mainPc = "serving" /\ loads = 1
    /\ \E h \in Handlers : hpc[h] = "serve" /\ hgot[h].exists

\* C14: a request that the rate limiter rejects ends there: its handler goes
\* from rateLimit straight to the end with no lookup, and no step of any
\* handler changes a key or an entry of the cache.
C14_RejectedTouchesNoCache ==
    [][/\ \A h \in Handlers :
            (/\ hpc[h] = "limit"
             /\ TooSoon(CleanUp(visitors, now), hip[h], now, minRequestInterval)
             /\ hpc'[h] # "limit")
                => (hpc'[h] = "idle" /\ hgot' = hgot /\ muReaders' = muReaders)
       /\ hpc' # hpc => cache' = cache]_vars

\* C14 witness: a request has been rejected and its handler is done, with the
\* cache holding the file the initial load put there.
C14_Witness ==
    \E h \in Handlers :
        /\ hpc[h] = "idle"
        /\ lastReject[hip[h]] >= 0
        /\ hpath[h] \in DOMAIN cache

C15_WalkAndReadHoldNoLock ==
    /\ muWriter = "scan" <=> scanPc \in {"store", "purging"}
    /\ "scan" \notin muReaders
    /\ scanPc = "read" => muWriter \in Handlers \cup {NoOne}

\* C15 witness: a handler holds the read lock for its lookup while loadFiles
\* is reading a file from disk.
C15_Witness ==
    /\ scanPc = "read"
    /\ \E h \in Handlers : hpc[h] = "rlocked" /\ h \in muReaders

\* The keys the cache held when the last loadFiles began and holds no more.
Removed == DOMAIN pre \ DOMAIN cache

\* C16: at every moment the keys that the current loadFiles has removed are
\* none of them or, once it has returned nil, all of the keys it found and
\* did not see; and the removal pass begins only when the walk, and so every
\* store of this loadFiles, is over.
C16_RemovalsInOnePass ==
    /\ \/ Removed = {}
       \/ scanPc \in {"ret", "idle"} /\ ~err /\ Removed = DOMAIN pre \ seen
    /\ scanPc \in {"purge", "purging"} => names = <<>>
    /\ scanPc \in {"walk", "visit", "check", "read", "lock", "store"}
           => DOMAIN pre \subseteq DOMAIN cache

\* C16 witness: one loadFiles has removed two keys.
C16_Witness ==
    /\ Returned /\ ~err
    /\ Cardinality(Removed) >= 2

\* C17: loadFiles reads a file and stores its entry only when the cache has
\* no entry for it with the modification time found at the visit; and when
\* no one edits the directory meanwhile, every file visited whose
\* modification time on disk is the one of the entry the scan found keeps
\* that entry.
C17_UnchangedFileNotReadNorStored ==
    /\ scanPc \in {"read", "lock", "store"} =>
           ~ /\ Head(names) \in DOMAIN cache
             /\ cache[Head(names)].modTime = info
    /\ (Returned /\ ~dirty) =>
           \A n \in seen :
               (n \in DOMAIN pre /\ pre[n].modTime = disk[n].modTime)
                   => (n \in DOMAIN cache /\ cache[n] = pre[n])

\* C17 witness: a refresh that no edit disturbed has visited a file that was
\* rewritten with the modification time of its cached entry, and has kept
\* the entry.
C17_Witness ==
    /\ CleanScan
    /\ \E n \in seen :
           /\ n \in DOMAIN pre /\ pre[n].modTime = disk[n].modTime
           /\ pre[n].content # disk[n].content
           /\ cache[n] = pre[n]

\* C18: a loadFiles that follows one that returned nil, with no edit of the
\* directory since that one began, leaves the cache as it found it: the same
\* keys, each with the same content and modification time.
C18_SecondScanChangesNothing ==
    (Returned /\ ~dirty /\ stable) => cache = pre

\* C18 witness: the second of two refreshes in a row on one disk state has
\* returned nil and left a cache that is not empty, in a behaviour in which
\* a file has had a version that the cache does not hold.
C18_Witness ==
    /\ CleanScan /\ stable
    /\ loads = MoreScans
    /\ DOMAIN cache # {}
    /\ \E n \in Names : versions[n] \ {cache[m] : m \in DOMAIN cache} # {}

\* C19: the entry a handler got from its lookup has, for as long as the
\* handler holds it, the content and the modification time it had at the
\* lookup: while the map still holds that same entry for the key the map
\* shows those values, and a store or a removal of the key by loadFiles
\* takes the entry out of the map and leaves it as it was.
C19_HeldEntryNeverChanges ==
    \A h \in Handlers :
        hlive[h] =>
            /\ hpc[h] = "serve" /\ hgot[h].exists
            /\ hpath[h] \in DOMAIN cache
            /\ cache[hpath[h]] = hgot[h].cached

\* C19 witness: a handler is about to serve an entry whose key loadFiles has
\* stored anew since the handler's lookup.
C19_Witness ==
    \E h \in Handlers :
        /\ hpc[h] = "serve" /\ hgot[h].exists /\ ~hlive[h]
        /\ hpath[h] \in DOMAIN cache
        /\ cache[hpath[h]] # hgot[h].cached

\* A refresh's loadFiles has returned an error to the refresh goroutine.
FailedRefresh == loopPc = "scan" /\ scanPc = "ret" /\ err
\* The refresh goroutine sleeps until after the last moment of the clock.
SleepsOn == loopPc = "sleep" /\ wakeAt > MaxTime

\* C11: when a refresh's loadFiles returns an error the refresh goroutine
\* goes round its loop and main goes on serving; the loop, once started,
\* never ends; and under fair scheduling a failed refresh is followed by
\* the next call of loadFiles (or, at the end of the clock, by the sleep
\* before it).
C11_FailedRefreshGoesOn ==
    /\ [][(FailedRefresh /\ ~FailedRefresh')
              => (loopPc' = "loop" /\ mainPc' = "serving")]_vars
    /\ [][loopPc # "off" => (loopPc' # "off" /\ mainPc' = "serving")]_vars
    /\ \A k \in 2..MaxScans :
           (FailedRefresh /\ loads = k)
               ~> ((loopPc = "scan" /\ loads = k + 1) \/ SleepsOn)

\* C11 witness: loadFiles runs for a refresh after a refresh that failed.
C11_Witness ==
    /\ failures >= 1
    /\ mainPc = "serving"
    /\ loopPc = "scan" /\ scanPc \notin {"idle", "ret"}

\* What a lookup of n returns when the cache holds n, or does not, as the
\* disk does.
OnDisk(n) == IF n \in FilesOn(disk) THEN Cached(n) ELSE Lookup(EmptyMap, n)
\* Every lookup returns exactly the disk's state.
AgreesWithDisk == \A n \in Names : Lookup(cache, n) = OnDisk(n)
\* Every lookup returns exactly the disk's state, or the entry that the
\* last loadFiles found with the file's modification time and kept.
AgreesUnlessSameModTime ==
    \A n \in Names :
        \/ Lookup(cache, n) = OnDisk(n)
        \/ /\ n \in FilesOn(disk)
           /\ n \in DOMAIN pre /\ pre[n].modTime = disk[n].modTime
           /\ n \in DOMAIN cache /\ cache[n] = pre[n]
\* The directory has had its last edit, main serves, no loadFiles runs and
\* another one may.
DiskStopped ==
    /\ edits = MaxEdits
    /\ mainPc = "serving"
    /\ scanPc = "idle"
    /\ loads < MoreScans

\* C13 (as claimed): a refresh that returns nil, on a directory not edited
\* since it began, leaves every lookup returning exactly the disk's state;
\* once the directory has had its last edit, under fair scheduling with a
\* positive refresh interval a loadFiles returns that failed or that left
\* the lookups so (or, at the end of the clock, the loop sleeps before it);
\* and lookups that return the disk's state go on returning it while the
\* disk stays as it is.
C13_EventuallyDisk ==
    /\ []((loopPc = "scan" /\ CleanScan) => AgreesWithDisk)
    /\ DiskStopped ~> (SleepsOn \/ (Returned /\ (err \/ AgreesWithDisk)))
    /\ [][(AgreesWithDisk /\ ~dirty /\ disk' = disk) => AgreesWithDisk']_vars

\* C13 (amended): the same, except that a file rewritten with the
\* modification time of its cached entry keeps that entry.
C13_EventuallyDiskUnlessSameModTime ==
    /\ []((loopPc = "scan" /\ CleanScan) => AgreesUnlessSameModTime)
    /\ DiskStopped
           ~> (SleepsOn \/ (Returned /\ (err \/ AgreesUnlessSameModTime)))
    /\ [][(AgreesUnlessSameModTime /\ ~dirty /\ disk' = disk)
              => AgreesUnlessSameModTime']_vars

\* C13 witness: after the last edit, which gave a cached file a new content
\* and a new modification time, a refresh has returned nil and every lookup
\* returns the disk's state.
C13_Witness ==
    /\ edits = MaxEdits
    /\ mainPc = "serving" /\ CleanScan
    /\ AgreesWithDisk
    /\ \E n \in FilesOn(disk) :
           /\ n \in DOMAIN pre
           /\ pre[n].modTime # disk[n].modTime
           /\ pre[n].content # disk[n].content

====
